---- MODULE Spec2Model ----
(***************************************************************************)
(* NLPP.py: a line-oriented preprocessor.  processFile reads a file line   *)
(* by line, keeps a state (NORMAL, CONFIG, COMMENT, UNCOMMENT, ENDOFCODE)  *)
(* and a config dictionary, and writes one output line per input line.     *)
(*                                                                         *)
(* A line is a sequence of one-character strings, terminator included, so  *)
(* that strip, startswith, slicing, partition and find are computed as     *)
(* Python computes them.                                                   *)
(***************************************************************************)
EXTENDS Integers, Sequences, FiniteSets, TLC

VARIABLES
    state,    \* processFile's local `state`
    config,   \* processFile's local `config`: name -> value
    input,    \* the lines the for loop has read from the input file, in order
    output,   \* the lines written to the output file, in order
    pc,       \* "running" (in the loop), "done" (input exhausted), "error" (ProcessingError raised)
    hist,     \* pure-function harness: the argument, then each result
    ops       \* pure-function harness: the functions applied, in order

vars == <<state, config, input, output, pc, hist, ops>>

----------------------------------------------------------------------------
(* Bounds of the model *)

\* number of lines of the input file (Spec: the core lines)
MaxLines == 5
\* number of lines of the input file (SpecDeep: the core lines, one line more)
MaxDeepLines == 6
\* number of lines of the input file (SpecConfig: config entries and flag references)
MaxCfgLines == 5
\* number of lines of the input file (SpecBlock: the lines of COMMENT / UNCOMMENT blocks)
MaxBlockLines == 6
\* number of lines of the input file (SpecSpace: whitespace after the marker)
MaxSpaceLines == 5
\* number of lines of the input file (SpecCfgBody: any line inside a CONFIG block)
MaxCfgBodyLines == 4
\* number of lines of the input file (SpecTrail: whitespace after the name)
MaxTrailLines == 5
\* number of lines of the input file (SpecLive: termination)
MaxLiveLines == 5
\* length of the body of a line given to commentCode / uncommentCode alone
MaxLen == 3
\* number of successive applications of commentCode / uncommentCode
MaxOps == 2

----------------------------------------------------------------------------
(* Python string primitives *)

\* the characters str.strip() removes that can occur in the modelled lines
IsSpace(c) == c \in {" ", "\t", "\n", "\r", "\f"}

Min(a, b) == IF a < b THEN a ELSE b

\* s[a:b] for 0 <= a, 0 <= b (indices past the end are clamped)
Slice(s, a, b) == SubSeq(s, a + 1, Min(b, Len(s)))

\* s[a:] for 0 <= a
SliceFrom(s, a) == SubSeq(s, a + 1, Len(s))

RECURSIVE lstrip(_)
lstrip(s) == IF s # <<>> /\ IsSpace(Head(s)) THEN lstrip(Tail(s)) ELSE s

\* (variant) only the line terminator removed on the right
RECURSIVE rstrip_NL(_)
rstrip_NL(s) ==
    IF s # <<>> /\ s[Len(s)] \in {"\n", "\r"} THEN rstrip_NL(SubSeq(s, 1, Len(s) - 1)) ELSE s

RECURSIVE rstrip(_)
rstrip(s) == IF s # <<>> /\ IsSpace(s[Len(s)]) THEN rstrip(SubSeq(s, 1, Len(s) - 1)) ELSE s

\* s.strip()
strip(s) == rstrip(lstrip(s))

\* s.startswith(p)
startswith(s, p) == Len(s) >= Len(p) /\ SubSeq(s, 1, Len(p)) = p

\* s.find(c) for a one-character c: 0-based index of its first occurrence, -1 if none
find(s, c) ==
    IF \E i \in 1..Len(s) : s[i] = c
    THEN (CHOOSE i \in 1..Len(s) : s[i] = c /\ \A j \in 1..(i - 1) : s[j] # c) - 1
    ELSE -1

\* s.partition(" "): <<head, separator, tail>> around the first space
partition(s) ==
    LET p == find(s, " ")
    IN  IF p = -1 THEN <<s, <<>>, <<>>>>
        ELSE <<Slice(s, 0, p), <<" ">>, SliceFrom(s, p + 1)>>

----------------------------------------------------------------------------
(* Literals of the program *)

DELIM == <<";", ";", " ", "$", "@">>
SENTINEL == <<"@", "#", "$", "#", "@", "#", "$", "#", "@">>
NAME_END == <<"E", "N", "D">>
NAME_CONFIG == <<"C", "O", "N", "F", "I", "G">>
NAME_VERSION == <<"V", "E", "R", "S", "I", "O", "N">>
VALUE_TRUE == <<"T", "R", "U", "E">>
COMMENT_PREFIX == <<";", " ">>

STATE_NORMAL == 0
STATE_CONFIG == 1
STATE_COMMENT == 2
STATE_UNCOMMENT == 3
STATE_ENDOFCODE == 4

\* config values: a Python bool, or (for VERSION) a Python str
BoolVal(b) == [isStr |-> FALSE, b |-> b, s |-> <<>>]
StrVal(s) == [isStr |-> TRUE, b |-> FALSE, s |-> s]

\* Python truthiness, `if ( config[name] )`: a str is true iff it is not empty
Truthy(v) == IF v.isStr THEN v.s # <<>> ELSE v.b

----------------------------------------------------------------------------
(* The helper functions *)

hasDelim(s) == startswith(strip(s), DELIM)

\* (variant) the name taken from the line as read, terminator included
getDelimName_Raw(s) == SliceFrom(s, 5)

\* (variant) the name stripped of the whitespace that follows the marker
getDelimName_LStrip(s) == lstrip(SliceFrom(strip(s), 5))

getDelimName(s) == SliceFrom(strip(s), 5)

\* (variant) the whole text after the marker taken as the name
getConfigTuple_NoPartition(s) ==
    LET name == SliceFrom(strip(s), 5)
    IN  IF name # NAME_VERSION
        THEN <<name, BoolVal(FALSE)>>
        ELSE <<name, StrVal(<<>>)>>

\* (variant) every value, VERSION's too, stored as a bool
getConfigTuple_AllBool(s) ==
    LET parts == partition(SliceFrom(strip(s), 5))
    IN  <<parts[1], BoolVal(parts[3] = VALUE_TRUE)>>

getConfigTuple(s) ==
    LET parts == partition(SliceFrom(strip(s), 5))
        name == parts[1]
        value == parts[3]
    IN  IF name # NAME_VERSION
        THEN <<name, BoolVal(value = VALUE_TRUE)>>
        ELSE <<name, StrVal(value)>>

\* (variant) the sentinel looked for in the stripped line
endOfCode_Strip(s) == startswith(strip(s), SENTINEL)

endOfCode(s) == startswith(s, SENTINEL)

\* (variant) every line starting with a semicolon taken as commented out
commentCode_AnySemi(line) ==
    IF Slice(strip(line), 0, 1) = <<";">>
    THEN line
    ELSE COMMENT_PREFIX \o line

\* (variant) the prefix is a bare semicolon
commentCode_Bare(line) ==
    IF Slice(strip(line), 0, 1) = <<";">> /\ Slice(strip(line), 1, 2) # <<";">>
    THEN line
    ELSE <<";">> \o line

commentCode(line) ==
    IF Slice(strip(line), 0, 1) = <<";">> /\ Slice(strip(line), 1, 2) # <<";">>
    THEN line
    ELSE COMMENT_PREFIX \o line

\* (variant) a line starting with two semicolons uncommented like any other
uncommentCode_NoDouble(line) ==
    IF Slice(strip(line), 0, 1) # <<";">>
    THEN line
    ELSE LET semiPos == find(line, ";")
         IN  Slice(line, 0, semiPos) \o SliceFrom(line, semiPos + 1)

\* (variant) the semicolon removed together with the character after it
uncommentCode_Two(line) ==
    IF Slice(strip(line), 0, 2) = <<";", ";">> \/ Slice(strip(line), 0, 1) # <<";">>
    THEN line
    ELSE LET semiPos == find(line, ";")
         IN  Slice(line, 0, semiPos) \o SliceFrom(line, semiPos + 2)

uncommentCode(line) ==
    IF Slice(strip(line), 0, 2) = <<";", ";">> \/ Slice(strip(line), 0, 1) # <<";">>
    THEN line
    ELSE LET semiPos == find(line, ";")
         IN  Slice(line, 0, semiPos) \o SliceFrom(line, semiPos + 1)

----------------------------------------------------------------------------
(* The body of processFile's loop for one line *)

\* (variant) the dictionary rebuilt with the new entry alone
Store_Fresh(cfg, name, value) ==
    [k \in {name} |-> value]

\* config[name] = value
Store(cfg, name, value) ==
    [k \in DOMAIN cfg \cup {name} |-> IF k = name THEN value ELSE cfg[k]]

Result(st, cfg, lineOut, raised) ==
    [state |-> st, config |-> cfg, lineOut |-> lineOut, raised |-> raised]

\* (variant) the config lookup made before the test for CONFIG
NormalDelim_ConfigFirst(cfg, line) ==
    LET name == getDelimName(line)
    IN  IF name \in DOMAIN cfg
        THEN (IF Truthy(cfg[name]) THEN STATE_UNCOMMENT ELSE STATE_COMMENT)
        ELSE IF name = NAME_CONFIG THEN STATE_CONFIG ELSE STATE_NORMAL

\* the branch `state == STATE_NORMAL and hasDelim(line)`
NormalDelim(cfg, line) ==
    LET name == getDelimName(line)
    IN  IF name = NAME_CONFIG THEN STATE_CONFIG
        ELSE IF name \in DOMAIN cfg
             THEN (IF Truthy(cfg[name]) THEN STATE_UNCOMMENT ELSE STATE_COMMENT)
             ELSE STATE_NORMAL

\* (variant) a directive inside a block passed through instead of raising
Block_Skip(st, cfg, line, transformed) ==
    IF hasDelim(line) /\ getDelimName(line) = NAME_END
    THEN Result(STATE_NORMAL, cfg, line, FALSE)
    ELSE IF hasDelim(line)
         THEN Result(st, cfg, line, FALSE)
         ELSE Result(st, cfg, transformed, FALSE)

\* the branches `state == STATE_COMMENT` and `state == STATE_UNCOMMENT`
Block(st, cfg, line, transformed) ==
    IF hasDelim(line) /\ getDelimName(line) = NAME_END
    THEN Result(STATE_NORMAL, cfg, line, FALSE)
    ELSE IF hasDelim(line)
         THEN Result(st, cfg, line, TRUE)
         ELSE Result(st, cfg, transformed, FALSE)

\* (variant) the sentinel looked for after the tests of the state
LoopBody_SentinelLast(st, cfg, line) ==
    IF hasDelim(line) /\ getDelimName(line) = NAME_END
    THEN Result(STATE_NORMAL, cfg, line, FALSE)
    ELSE IF st = STATE_CONFIG
    THEN LET t == getConfigTuple(line)
         IN  Result(st, Store(cfg, t[1], t[2]), line, FALSE)
    ELSE IF st = STATE_NORMAL /\ hasDelim(line)
    THEN Result(NormalDelim(cfg, line), cfg, line, FALSE)
    ELSE IF st = STATE_COMMENT
    THEN Block(st, cfg, line, commentCode(line))
    ELSE IF st = STATE_UNCOMMENT
    THEN Block(st, cfg, line, uncommentCode(line))
    ELSE IF endOfCode(line)
    THEN Result(STATE_ENDOFCODE, cfg, line, FALSE)
    ELSE Result(st, cfg, line, FALSE)

\* (variant) a line without the marker inside a CONFIG block rejected
LoopBody_StrictConfig(st, cfg, line) ==
    IF endOfCode(line)
    THEN Result(STATE_ENDOFCODE, cfg, line, FALSE)
    ELSE IF hasDelim(line) /\ getDelimName(line) = NAME_END
    THEN Result(STATE_NORMAL, cfg, line, FALSE)
    ELSE IF st = STATE_CONFIG
    THEN (IF hasDelim(line)
          THEN LET t == getConfigTuple(line)
               IN  Result(st, Store(cfg, t[1], t[2]), line, FALSE)
          ELSE Result(st, cfg, line, TRUE))
    ELSE IF st = STATE_NORMAL /\ hasDelim(line)
    THEN Result(NormalDelim(cfg, line), cfg, line, FALSE)
    ELSE IF st = STATE_COMMENT
    THEN Block(st, cfg, line, commentCode(line))
    ELSE IF st = STATE_UNCOMMENT
    THEN Block(st, cfg, line, uncommentCode(line))
    ELSE Result(st, cfg, line, FALSE)

\* (variant) a directive followed in every state but CONFIG
LoopBody_DelimFirst(st, cfg, line) ==
    IF endOfCode(line)
    THEN Result(STATE_ENDOFCODE, cfg, line, FALSE)
    ELSE IF hasDelim(line) /\ getDelimName(line) = NAME_END
    THEN Result(STATE_NORMAL, cfg, line, FALSE)
    ELSE IF st = STATE_CONFIG
    THEN LET t == getConfigTuple(line)
         IN  Result(st, Store(cfg, t[1], t[2]), line, FALSE)
    ELSE IF hasDelim(line)
    THEN Result(NormalDelim(cfg, line), cfg, line, FALSE)
    ELSE IF st = STATE_COMMENT
    THEN Block(st, cfg, line, commentCode(line))
    ELSE IF st = STATE_UNCOMMENT
    THEN Block(st, cfg, line, uncommentCode(line))
    ELSE Result(st, cfg, line, FALSE)

LoopBody(st, cfg, line) ==
    IF endOfCode(line)
    THEN Result(STATE_ENDOFCODE, cfg, line, FALSE)
    ELSE IF hasDelim(line) /\ getDelimName(line) = NAME_END
    THEN Result(STATE_NORMAL, cfg, line, FALSE)
    ELSE IF st = STATE_CONFIG
    THEN LET t == getConfigTuple(line)
         IN  Result(st, Store(cfg, t[1], t[2]), line, FALSE)
    ELSE IF st = STATE_NORMAL /\ hasDelim(line)
    THEN Result(NormalDelim(cfg, line), cfg, line, FALSE)
    ELSE IF st = STATE_COMMENT
    THEN Block(st, cfg, line, commentCode(line))
    ELSE IF st = STATE_UNCOMMENT
    THEN Block(st, cfg, line, uncommentCode(line))
    ELSE Result(st, cfg, line, FALSE)

----------------------------------------------------------------------------
(* Input lines *)

L_SENT == <<"@", "#", "$", "#", "@", "#", "$", "#", "@", "\n">>
L_WSENT == <<" ", "@", "#", "$", "#", "@", "#", "$", "#", "@", "\n">>
L_END == <<";", ";", " ", "$", "@", "E", "N", "D", "\n">>
L_CONFIG == <<";", ";", " ", "$", "@", "C", "O", "N", "F", "I", "G", "\n">>
L_F == <<";", ";", " ", "$", "@", "F", "\n">>
L_F_TRUE == <<";", ";", " ", "$", "@", "F", " ", "T", "R", "U", "E", "\n">>
L_F_LOWER == <<";", ";", " ", "$", "@", "F", " ", "t", "r", "u", "e", "\n">>
L_F_2SP == <<";", ";", " ", "$", "@", "F", " ", " ", "T", "R", "U", "E", "\n">>
L_VERSION == <<";", ";", " ", "$", "@", "V", "E", "R", "S", "I", "O", "N", "\n">>
L_VERSION_1 == <<";", ";", " ", "$", "@", "V", "E", "R", "S", "I", "O", "N", " ", "1", "\n">>
L_SP_END == <<";", ";", " ", "$", "@", " ", "E", "N", "D", "\n">>
L_SP_CONFIG == <<";", ";", " ", "$", "@", " ", "C", "O", "N", "F", "I", "G", "\n">>
L_SP_F == <<";", ";", " ", "$", "@", " ", "F", "\n">>
L_LONG == <<"a", "b", "c", "d", "e", "f", "g", " ", "h", "i", "\n">>
L_END_T == <<";", ";", " ", "$", "@", "E", "N", "D", " ", " ", "\n">>
L_CONFIG_T == <<";", ";", " ", "$", "@", "C", "O", "N", "F", "I", "G", "\t", "\n">>
L_F_T == <<";", ";", " ", "$", "@", "F", " ", "\n">>
L_X == <<"x", "\n">>
L_CX == <<";", " ", "x", "\n">>
L_SX == <<";", "x", "\n">>
L_CCX == <<";", ";", " ", "x", "\n">>
L_BLANK == <<"\n">>
L_IX == <<" ", " ", "x", "\n">>
L_ICX == <<" ", " ", ";", " ", "x", "\n">>
L_ICCX == <<"\t", ";", ";", "x", "\n">>
L_SEMI == <<";", "\n">>
L_SEMI_EOF == <<";">>

\* the lines that drive the state machine, a plain line, a commented line and
\* a last line without terminator
LinesCore == {L_SENT, L_WSENT, L_END, L_CONFIG, L_F, L_F_TRUE, L_X, L_CX, L_SEMI_EOF}

\* the directives of CONFIG blocks and the references to their flags
LinesConfig ==
    {L_CONFIG, L_END, L_F, L_F_TRUE, L_F_LOWER, L_F_2SP, L_VERSION, L_VERSION_1}

\* the lines that open and close a COMMENT or UNCOMMENT block
LinesDriver == {L_CONFIG, L_F, L_F_TRUE, L_END}

\* the lines met inside a COMMENT or UNCOMMENT block
LinesBlock ==
    {L_X, L_CX, L_SX, L_CCX, L_BLANK, L_IX, L_ICX, L_ICCX, L_SEMI, L_SEMI_EOF,
     L_END, L_F, L_SENT}

\* directives with and without whitespace between the marker and the name
LinesSpace == {L_SENT, L_CONFIG, L_F, L_END, L_SP_END, L_SP_CONFIG, L_SP_F}

\* the lines met inside a CONFIG block: directives, plain, blank and short lines
LinesCfgBody ==
    {L_X, L_BLANK, L_CX, L_WSENT, L_LONG, L_SEMI_EOF, L_SP_END, L_CONFIG, L_F,
     L_F_TRUE, L_END, L_SENT}

\* directives with and without whitespace between the name and the terminator
LinesTrail == {L_SENT, L_CONFIG, L_F, L_END, L_END_T, L_CONFIG_T, L_F_T}

\* the lines that open, fill, close and break a block
LinesLive == {L_SENT, L_END, L_CONFIG, L_F, L_F_TRUE, L_X}

\* the characters of a line given to commentCode / uncommentCode alone
BodyChars == {";", " ", "x"}

\* lines of at most MaxLen characters, with or without their terminator
PureLines ==
    LET bodies == UNION {[1..n -> BodyChars] : n \in 0..MaxLen}
    IN  (bodies \ {<<>>}) \cup {b \o <<"\n">> : b \in bodies}

----------------------------------------------------------------------------
(* processFile *)

InitFile ==
    /\ state = 0
    /\ config = <<>>
    /\ input = <<>>
    /\ output = <<>>
    /\ pc = "running"

Init ==
    /\ InitFile
    /\ hist = <<>>
    /\ ops = <<>>

\* `for line in file` yields each line with its terminator; only the last line
\* of a file can lack one
Terminated(l) == l # <<>> /\ l[Len(l)] = "\n"

\* (variant) the exception caught inside the loop, which goes on with the next line
ProcessLine_Swallow(line) ==
    /\ pc = "running"
    /\ (IF input = <<>> THEN TRUE ELSE Terminated(input[Len(input)]))
    /\ input' = Append(input, line)
    /\ LET r == LoopBody(state, config, line)
       IN  IF r.raised
           THEN /\ pc' = pc
                /\ UNCHANGED <<state, config, output>>
           ELSE /\ state' = r.state
                /\ config' = r.config
                /\ output' = Append(output, r.lineOut)
                /\ pc' = pc
    /\ UNCHANGED <<hist, ops>>

\* one iteration of `for line in file`
ProcessLine(line) ==
    /\ pc = "running"
    /\ (IF input = <<>> THEN TRUE ELSE Terminated(input[Len(input)]))
    /\ input' = Append(input, line)
    /\ LET r == LoopBody(state, config, line)
       IN  IF r.raised
           THEN /\ pc' = "error"
                /\ UNCHANGED <<state, config, output>>
           ELSE /\ state' = r.state
                /\ config' = r.config
                /\ output' = Append(output, r.lineOut)
                /\ pc' = pc
    /\ UNCHANGED <<hist, ops>>

\* the for loop finds the input exhausted
EndOfFile ==
    /\ pc = "running"
    /\ pc' = "done"
    /\ UNCHANGED <<state, config, input, output, hist, ops>>

\* files of at most MaxLines core lines
ReadCore ==
    \E line \in LinesCore : Len(input) < MaxLines /\ ProcessLine(line)

Next == ReadCore \/ EndOfFile

Spec == Init /\ [][Next]_vars

\* files of at most MaxLiveLines lines of LinesLive
ReadLive ==
    \E line \in LinesLive : Len(input) < MaxLiveLines /\ ProcessLine(line)

NextLive == ReadLive \/ EndOfFile

\* the loop keeps running: an iteration or the end of the input always follows
SpecLive == Init /\ [][NextLive]_vars /\ WF_vars(NextLive)

\* files of at most MaxDeepLines core lines
ReadDeep ==
    \E line \in LinesCore : Len(input) < MaxDeepLines /\ ProcessLine(line)

NextDeep == ReadDeep \/ EndOfFile

SpecDeep == Init /\ [][NextDeep]_vars

\* files of at most MaxCfgLines config lines
ReadConfig ==
    \E line \in LinesConfig : Len(input) < MaxCfgLines /\ ProcessLine(line)

NextConfig == ReadConfig \/ EndOfFile

SpecConfig == Init /\ [][NextConfig]_vars

\* files of at most MaxBlockLines lines whose blocks hold the lines of LinesBlock
ReadBlock ==
    \E line \in (IF state \in {STATE_COMMENT, STATE_UNCOMMENT}
                 THEN LinesBlock ELSE LinesDriver) :
        Len(input) < MaxBlockLines /\ ProcessLine(line)

NextBlock == ReadBlock \/ EndOfFile

SpecBlock == Init /\ [][NextBlock]_vars

\* files of at most MaxSpaceLines lines of LinesSpace
ReadSpace ==
    \E line \in LinesSpace : Len(input) < MaxSpaceLines /\ ProcessLine(line)

NextSpace == ReadSpace \/ EndOfFile

SpecSpace == Init /\ [][NextSpace]_vars

\* files of at most MaxCfgBodyLines lines whose CONFIG blocks hold the lines of
\* LinesCfgBody
ReadCfgBody ==
    \E line \in (IF state = STATE_CONFIG THEN LinesCfgBody ELSE {L_CONFIG, L_END}) :
        Len(input) < MaxCfgBodyLines /\ ProcessLine(line)

NextCfgBody == ReadCfgBody \/ EndOfFile

SpecCfgBody == Init /\ [][NextCfgBody]_vars

\* files of at most MaxTrailLines lines of LinesTrail
ReadTrail ==
    \E line \in LinesTrail : Len(input) < MaxTrailLines /\ ProcessLine(line)

NextTrail == ReadTrail \/ EndOfFile

SpecTrail == Init /\ [][NextTrail]_vars

----------------------------------------------------------------------------
(* commentCode and uncommentCode on their own *)

InitPure ==
    /\ InitFile
    /\ hist \in {<<l>> : l \in PureLines}
    /\ ops = <<>>

ApplyComment ==
    /\ Len(ops) < MaxOps
    /\ hist' = Append(hist, commentCode(hist[Len(hist)]))
    /\ ops' = Append(ops, "commentCode")
    /\ UNCHANGED <<state, config, input, output, pc>>

ApplyUncomment ==
    /\ Len(ops) < MaxOps
    /\ hist' = Append(hist, uncommentCode(hist[Len(hist)]))
    /\ ops' = Append(ops, "uncommentCode")
    /\ UNCHANGED <<state, config, input, output, pc>>

NextPure == ApplyComment \/ ApplyUncomment

SpecPure == InitPure /\ [][NextPure]_vars

----------------------------------------------------------------------------
(* Vocabulary of the properties *)

Last(s) == s[Len(s)]

\* this step is an iteration of the loop: it consumed one line
Consumes == pc = "running" /\ Len(input') = Len(input) + 1

\* the line this step consumed
Line == input'[Len(input')]

\* o is i with "; " in front
IsPrefixed(i, o) == o = <<";", " ">> \o i

\* o is i with exactly one of its semicolons removed
IsOneSemiRemoved(i, o) ==
    \E p \in 1..Len(i) :
        i[p] = ";" /\ o = SubSeq(i, 1, p - 1) \o SubSeq(i, p + 1, Len(i))

\* o is i verbatim, i with "; " in front, or i less one semicolon
IsTransformOf(i, o) == o = i \/ IsPrefixed(i, o) \/ IsOneSemiRemoved(i, o)

\* the first character of l that is not whitespace is a semicolon
StartsWithSemi(l) ==
    \E k \in 1..Len(l) :
        /\ \A j \in 1..(k - 1) : l[j] \in {" ", "\t", "\n"}
        /\ l[k] = ";"

\* the first character of l that is not whitespace is a semicolon, and the
\* character after it is not a second semicolon
SingleSemi(l) ==
    \E k \in 1..Len(l) :
        /\ \A j \in 1..(k - 1) : l[j] \in {" ", "\t", "\n"}
        /\ l[k] = ";"
        /\ (k = Len(l) \/ l[k + 1] # ";")

\* the text after the marker, for a directive line of LinesConfig (no leading
\* whitespace, one terminator)
DirectiveText(l) == SubSeq(l, 6, Len(l) - 1)

----------------------------------------------------------------------------
(* C1 - C10 *)

\* C1: once a line starting with the sentinel has been consumed, every later
\* input line is written to the output unchanged.
C1_PassThroughAfterSentinel ==
    \A i \in 1..Len(input) :
        (\E j \in 1..(i - 1) : input[j] = L_SENT)
            => (i <= Len(output) /\ output[i] = input[i])

\* C2: END_OF_CODE is terminal: once state = STATE_ENDOFCODE, it is
\* STATE_ENDOFCODE after every later line.
C2_EndOfCodeTerminal ==
    [][state = STATE_ENDOFCODE => state' = STATE_ENDOFCODE]_vars

\* C3: while no ProcessingError is raised, the output has as many lines as the
\* input, and the i-th output line is the i-th input line verbatim, with "; " in
\* front, or with exactly one semicolon removed.
C3_LineForLine ==
    pc # "error" =>
        /\ Len(output) = Len(input)
        /\ \A i \in 1..Len(input) : IsTransformOf(input[i], output[i])

C3_Witness ==
    /\ pc = "done"
    /\ Len(input) = 5
    /\ input[5] = L_CX
    /\ output[5] = <<" ", "x", "\n">>

\* C4: in COMMENT or UNCOMMENT state a directive whose name is not END (CONFIG,
\* a declared flag, anything else) raises ProcessingError: nothing is written
\* for that line, the output is the transformed lines before it, and nothing is
\* read or written afterwards.
C4_FatalTag ==
    [][ /\ ( /\ Consumes
             /\ state \in {STATE_COMMENT, STATE_UNCOMMENT}
             /\ Line \in {L_CONFIG, L_F, L_F_TRUE} )
           => ( /\ pc' = "error"
                /\ output' = output
                /\ Len(output') = Len(input') - 1
                /\ \A i \in 1..Len(output') : IsTransformOf(input'[i], output'[i]) )
        /\ pc = "error" => (pc' = "error" /\ output' = output /\ input' = input)
      ]_vars

C4_Witness ==
    /\ pc = "error"
    /\ state = STATE_COMMENT
    /\ <<"F">> \in DOMAIN config
    /\ Last(input) = L_F
    /\ Len(output) = Len(input) - 1

\* C5: an END directive sets the state to NORMAL and is emitted unchanged in
\* every state; it stores no config entry and raises no error.
C5_EndResets ==
    [][ (Consumes /\ Line = L_END)
           => ( /\ state' = STATE_NORMAL
                /\ output' = Append(output, L_END)
                /\ config' = config
                /\ pc' = "running" )
      ]_vars

C5_Witness ==
    /\ input = <<L_CONFIG, L_F, L_END, L_F, L_END>>
    /\ output = input
    /\ state = STATE_NORMAL
    /\ DOMAIN config = {<<"F">>}

\* C6: for a line L whose first non-whitespace character is not a semicolon,
\* commentCode(L) is "; " + L and uncommentCode(commentCode(L)) = L.
C6_RoundTrip ==
    (ops = <<"commentCode", "uncommentCode">> /\ ~StartsWithSemi(hist[1]))
        => (hist[2] = <<";", " ">> \o hist[1] /\ hist[3] = hist[1])

\* C7: in NORMAL state a directive whose name is not END makes the state CONFIG
\* when the name is CONFIG (a flag named CONFIG or not), else UNCOMMENT or
\* COMMENT when the name is a key of config with a truthy or a falsy value,
\* else leaves it NORMAL; the line is emitted unchanged, config is untouched.
C7_NormalDirective ==
    [][ (Consumes /\ state = STATE_NORMAL /\ Line \in LinesConfig \ {L_END})
           => LET name == DirectiveText(Line)
              IN  /\ output' = Append(output, Line)
                  /\ config' = config
                  /\ pc' = "running"
                  /\ name = <<"C", "O", "N", "F", "I", "G">> => state' = STATE_CONFIG
                  /\ (name # <<"C", "O", "N", "F", "I", "G">> /\ name \notin DOMAIN config)
                        => state' = STATE_NORMAL
                  /\ (name # <<"C", "O", "N", "F", "I", "G">> /\ name \in DOMAIN config)
                        => state' = (IF \/ config[name] = BoolVal(TRUE)
                                        \/ (config[name].isStr /\ config[name].s # <<>>)
                                     THEN STATE_UNCOMMENT ELSE STATE_COMMENT)
      ]_vars

C7_Witness ==
    /\ input = <<L_CONFIG, L_CONFIG, L_END, L_CONFIG>>
    /\ <<"C", "O", "N", "F", "I", "G">> \in DOMAIN config
    /\ state = STATE_CONFIG
    /\ output = input

\* the entry each line of LinesConfig stands for: the text after the marker,
\* split at its first space
EntryOf(l) ==
    CASE l = L_F -> <<<<"F">>, BoolVal(FALSE)>>
      [] l = L_F_TRUE -> <<<<"F">>, BoolVal(TRUE)>>
      [] l = L_F_LOWER -> <<<<"F">>, BoolVal(FALSE)>>
      [] l = L_F_2SP -> <<<<"F">>, BoolVal(FALSE)>>
      [] l = L_VERSION -> <<<<"V", "E", "R", "S", "I", "O", "N">>, StrVal(<<>>)>>
      [] l = L_VERSION_1 -> <<<<"V", "E", "R", "S", "I", "O", "N">>, StrVal(<<"1">>)>>
      [] l = L_CONFIG -> <<<<"C", "O", "N", "F", "I", "G">>, BoolVal(FALSE)>>

\* C8: a config entry processed in CONFIG state stores its name with the value
\* true iff the value text is exactly TRUE (VERSION: the raw value text); a
\* name stored again holds the last value, and no other step changes config.
C8_ConfigEntry ==
    [][ Consumes =>
          IF state = STATE_CONFIG /\ Line \in LinesConfig \ {L_END}
          THEN LET e == EntryOf(Line)
               IN  /\ DOMAIN config' = DOMAIN config \cup {e[1]}
                   /\ config'[e[1]] = e[2]
                   /\ \A k \in DOMAIN config \ {e[1]} : config'[k] = config[k]
          ELSE config' = config
      ]_vars

C8_Witness ==
    /\ input = <<L_CONFIG, L_F_TRUE, L_END, L_CONFIG, L_F_2SP>>
    /\ DOMAIN config = {<<"F">>}
    /\ config[<<"F">>] = BoolVal(FALSE)

\* C9: a line starting at column 0 with the sentinel sets the state to
\* END_OF_CODE and is emitted unchanged in every state, storing no entry and
\* raising no error; a line with whitespace before the sentinel is handled by
\* the rules of the current state.
C9_Sentinel ==
    [][ Consumes =>
          /\ Line = L_SENT
                => ( /\ state' = STATE_ENDOFCODE
                     /\ output' = Append(output, L_SENT)
                     /\ config' = config
                     /\ pc' = "running" )
          /\ Line = L_WSENT
                => ( /\ state' = state
                     /\ pc' = "running"
                     /\ output' = Append(output, IF state = STATE_COMMENT
                                                 THEN <<";", " ">> \o L_WSENT
                                                 ELSE L_WSENT)
                     /\ IF state = STATE_CONFIG
                        THEN /\ DOMAIN config' = DOMAIN config \cup {<<"#", "$", "#", "@">>}
                             /\ config'[<<"#", "$", "#", "@">>] = BoolVal(FALSE)
                             /\ \A k \in DOMAIN config \ {<<"#", "$", "#", "@">>} :
                                    config'[k] = config[k]
                        ELSE config' = config )
      ]_vars

C9_Witness ==
    /\ input = <<L_CONFIG, L_F, L_END, L_F, L_SENT>>
    /\ output = input
    /\ state = STATE_ENDOFCODE
    /\ pc = "running"

\* C10: a line that reaches the COMMENT rule (not a directive, not a sentinel)
\* is emitted unchanged when its first non-whitespace character is a semicolon
\* not followed by a second one, and with "; " in front of the whole line in
\* every other case.
C10_CommentTransform ==
    [][ ( /\ Consumes
          /\ state = STATE_COMMENT
          /\ Line \in LinesBlock \ {L_END, L_F, L_SENT} )
           => ( /\ output' = Append(output, IF SingleSemi(Line)
                                            THEN Line
                                            ELSE <<";", " ">> \o Line)
                /\ state' = STATE_COMMENT
                /\ pc' = "running" )
      ]_vars

C10_Witness ==
    /\ state = STATE_COMMENT
    /\ Len(input) = 6
    /\ input[5] = L_ICCX
    /\ output[5] = <<";", " ", "\t", ";", ";", "x", "\n">>
    /\ input[6] = L_ICX
    /\ output[6] = L_ICX

----------------------------------------------------------------------------
(* C11 - C20 *)

\* the position of the first semicolon of l
FirstSemi(l) == CHOOSE k \in 1..Len(l) : l[k] = ";" /\ \A j \in 1..(k - 1) : l[j] # ";"

\* l without its k-th character
RemoveAt(l, k) == [i \in 1..(Len(l) - 1) |-> IF i < k THEN l[i] ELSE l[i + 1]]

\* C11: a line that reaches the UNCOMMENT rule (not a directive, not a
\* sentinel) is emitted unchanged when its first non-whitespace character is
\* not a semicolon or is followed by a second semicolon; otherwise it is
\* emitted without its first semicolon, one character shorter, the other
\* characters in their order.
C11_UncommentTransform ==
    [][ ( /\ Consumes
          /\ state = STATE_UNCOMMENT
          /\ Line \in LinesBlock \ {L_END, L_F, L_SENT} )
           => ( /\ output' = Append(output, IF SingleSemi(Line)
                                            THEN RemoveAt(Line, FirstSemi(Line))
                                            ELSE Line)
                /\ state' = STATE_UNCOMMENT
                /\ pc' = "running" )
      ]_vars

C11_Witness ==
    /\ state = STATE_UNCOMMENT
    /\ Len(input) = 6
    /\ input[5] = L_ICX
    /\ output[5] = <<" ", " ", " ", "x", "\n">>
    /\ input[6] = L_CCX
    /\ output[6] = L_CCX

\* C12: the emitted line differs from the line read only when the state
\* before the line is COMMENT or UNCOMMENT and the line is neither a sentinel
\* nor a directive; a line read in NORMAL, CONFIG or END_OF_CODE state, and a
\* sentinel or END line in any state, is emitted as read, and any other
\* directive is emitted as read wherever a line is emitted for it.
C12_EmittedAsRead ==
    [][ Consumes =>
          /\ (output' # output /\ output' # Append(output, Line))
                => ( /\ state \in {STATE_COMMENT, STATE_UNCOMMENT}
                     /\ Line \in {L_WSENT, L_X, L_CX, L_SEMI_EOF} )
          /\ state \in {STATE_NORMAL, STATE_CONFIG, STATE_ENDOFCODE}
                => output' = Append(output, Line)
          /\ Line \in {L_SENT, L_END} => output' = Append(output, Line)
          /\ Line \in {L_CONFIG, L_F, L_F_TRUE}
                => (output' = Append(output, Line) \/ output' = output)
      ]_vars

C12_Witness ==
    /\ input = <<L_CONFIG, L_F_TRUE, L_END, L_F, L_SENT>>
    /\ output = input
    /\ state = STATE_ENDOFCODE

\* C13 (as claimed): whitespace between the marker and the name is not part
\* of the name: ";; $@ END" returns the state to NORMAL, ";; $@ CONFIG" opens a
\* CONFIG block in NORMAL state and ";; $@ F" references the flag F.
C13_NameTrimmed ==
    [][ Consumes =>
          /\ Line = L_SP_END => state' = STATE_NORMAL
          /\ (Line = L_SP_CONFIG /\ state = STATE_NORMAL) => state' = STATE_CONFIG
          /\ (Line = L_SP_F /\ state = STATE_NORMAL /\ <<"F">> \in DOMAIN config)
                => state' \in {STATE_COMMENT, STATE_UNCOMMENT}
      ]_vars

\* C13 (amended): the name is the stripped line less its first five
\* characters, untrimmed, so ";; $@ END", ";; $@ CONFIG" and ";; $@ F" have
\* names that start with a space and are neither END, CONFIG nor a flag: in
\* NORMAL and END_OF_CODE state they change nothing and are emitted as read,
\* in CONFIG state they store an entry under the empty name, in COMMENT and
\* UNCOMMENT state they raise ProcessingError.
C13_NameUntrimmed ==
    [][ (Consumes /\ Line \in {L_SP_END, L_SP_CONFIG, L_SP_F}) =>
          /\ state \in {STATE_NORMAL, STATE_ENDOFCODE}
                => ( /\ state' = state
                     /\ config' = config
                     /\ output' = Append(output, Line)
                     /\ pc' = "running" )
          /\ state = STATE_CONFIG
                => ( /\ state' = STATE_CONFIG
                     /\ DOMAIN config' = DOMAIN config \cup {<<>>}
                     /\ config'[<<>>] = BoolVal(FALSE)
                     /\ \A k \in DOMAIN config \ {<<>>} : config'[k] = config[k]
                     /\ output' = Append(output, Line)
                     /\ pc' = "running" )
          /\ state \in {STATE_COMMENT, STATE_UNCOMMENT}
                => ( /\ pc' = "error"
                     /\ state' = state
                     /\ output' = output )
      ]_vars

C13_Witness ==
    /\ input = <<L_CONFIG, L_F, L_END, L_F, L_SP_END>>
    /\ state = STATE_COMMENT
    /\ pc = "error"
    /\ Len(output) = 4

\* the key each line of LinesCfgBody is stored under: the stripped line less
\* its first five characters, up to its first space
KeyOf(l) ==
    CASE l = L_X -> <<>>
      [] l = L_BLANK -> <<>>
      [] l = L_CX -> <<>>
      [] l = L_SEMI_EOF -> <<>>
      [] l = L_SP_END -> <<>>
      [] l = L_WSENT -> <<"#", "$", "#", "@">>
      [] l = L_LONG -> <<"f", "g">>
      [] l = L_CONFIG -> <<"C", "O", "N", "F", "I", "G">>
      [] l = L_F -> <<"F">>
      [] l = L_F_TRUE -> <<"F">>

\* C14: in CONFIG state every line that is neither a sentinel nor an END
\* directive, with or without the marker, writes exactly one key of config
\* (the stripped line less its first five characters, up to its first space),
\* leaves the state CONFIG, raises no error and is emitted unchanged.
C14_ConfigBody ==
    [][ ( /\ Consumes
          /\ state = STATE_CONFIG
          /\ Line \in LinesCfgBody \ {L_END, L_SENT} )
           => ( /\ DOMAIN config' = DOMAIN config \cup {KeyOf(Line)}
                /\ \A k \in DOMAIN config \ {KeyOf(Line)} : config'[k] = config[k]
                /\ state' = STATE_CONFIG
                /\ pc' = "running"
                /\ output' = Append(output, Line) )
      ]_vars

C14_Witness ==
    /\ input = <<L_CONFIG, L_LONG, L_BLANK, L_CONFIG>>
    /\ output = input
    /\ state = STATE_CONFIG
    /\ DOMAIN config = {<<"f", "g">>, <<>>, <<"C", "O", "N", "F", "I", "G">>}

\* C15: ProcessingError is raised only when the state before the line is
\* COMMENT or UNCOMMENT and the line is a directive whose name is not END: no
\* line read in NORMAL, CONFIG or END_OF_CODE state, and no sentinel, END or
\* non-directive line in any state, aborts processing.
C15_OnlyFailure ==
    [][ /\ (pc = "running" /\ pc' = "error")
              => ( /\ Consumes
                   /\ state \in {STATE_COMMENT, STATE_UNCOMMENT}
                   /\ Line \in {L_CONFIG, L_F, L_F_TRUE} )
        /\ (Consumes /\ state \in {STATE_NORMAL, STATE_CONFIG, STATE_ENDOFCODE})
              => pc' = "running"
        /\ (Consumes /\ Line \in {L_SENT, L_WSENT, L_END, L_X, L_CX, L_SEMI_EOF})
              => pc' = "running"
      ]_vars

C15_Witness ==
    /\ input = <<L_CONFIG, L_F_TRUE, L_END, L_F, L_F_TRUE>>
    /\ output = <<L_CONFIG, L_F_TRUE, L_END, L_F>>
    /\ state = STATE_UNCOMMENT
    /\ pc = "error"

\* C16: config is changed only by a line processed under the CONFIG-state
\* rule; every other line, sentinel and END lines included, leaves it
\* unchanged; no key is ever removed, and a key keeps its value until a later
\* CONFIG-state entry with the same name overwrites it.
C16_ConfigFrame ==
    [][ /\ \A k \in DOMAIN config : k \in DOMAIN config'
        /\ ~Consumes => config' = config
        /\ Consumes =>
              IF state = STATE_CONFIG /\ Line \notin {L_SENT, L_END}
              THEN \A k \in DOMAIN config \ {KeyOf(Line)} : config'[k] = config[k]
              ELSE config' = config
      ]_vars

C16_Witness ==
    /\ input = <<L_CONFIG, L_F_TRUE, L_SENT, L_END, L_CONFIG>>
    /\ state = STATE_CONFIG
    /\ DOMAIN config = {<<"F">>}
    /\ config[<<"F">>] = BoolVal(TRUE)

\* C17 (as claimed): whitespace between the name and the line terminator is
\* part of the name: ";; $@END  " is not an END directive, ";; $@CONFIG<tab>"
\* opens no CONFIG block and ";; $@F " references no flag.
C17_TrailingKept ==
    [][ Consumes =>
          /\ (Line = L_END_T /\ state # STATE_NORMAL) => state' # STATE_NORMAL
          /\ (Line = L_CONFIG_T /\ state = STATE_NORMAL) => state' # STATE_CONFIG
          /\ (Line = L_F_T /\ state = STATE_NORMAL) => state' = STATE_NORMAL
      ]_vars

\* C17 (amended): the line is stripped on both ends before the marker is
\* matched and the name taken, so whitespace between the name and the line
\* terminator is not part of the name: ";; $@END  " is an END directive in
\* every state, ";; $@CONFIG<tab>" opens a CONFIG block in NORMAL state and
\* ";; $@F " references the flag F; each is emitted as read.
C17_TrailingStripped ==
    [][ Consumes =>
          /\ Line = L_END_T
                => ( /\ state' = STATE_NORMAL
                     /\ config' = config
                     /\ output' = Append(output, L_END_T)
                     /\ pc' = "running" )
          /\ (Line = L_CONFIG_T /\ state = STATE_NORMAL)
                => ( /\ state' = STATE_CONFIG
                     /\ config' = config
                     /\ output' = Append(output, L_CONFIG_T) )
          /\ (Line = L_F_T /\ state = STATE_NORMAL /\ <<"F">> \in DOMAIN config)
                => ( /\ state' = (IF config[<<"F">>] = BoolVal(TRUE)
                                  THEN STATE_UNCOMMENT ELSE STATE_COMMENT)
                     /\ config' = config
                     /\ output' = Append(output, L_F_T) )
      ]_vars

C17_Witness ==
    /\ input = <<L_CONFIG_T, L_F, L_END_T, L_F_T, L_END_T>>
    /\ output = input
    /\ state = STATE_NORMAL
    /\ pc = "running"
    /\ DOMAIN config = {<<"F">>}

\* C18: for every finite input processFile eventually finishes, in exactly
\* one of two ways: the input is exhausted after every line read was handled
\* once, in order, or ProcessingError is raised at the first non-END directive
\* read in COMMENT or UNCOMMENT state; a finished run does nothing more.
C18_Finishes ==
    /\ <>(pc \in {"done", "error"})
    /\ [][ /\ pc \in {"done", "error"} => UNCHANGED vars
           /\ (pc = "running" /\ pc' = "done")
                 => ( /\ input' = input
                      /\ output' = output
                      /\ Len(output) = Len(input) )
           /\ (pc = "running" /\ pc' = "error")
                 => ( /\ Consumes
                      /\ state \in {STATE_COMMENT, STATE_UNCOMMENT}
                      /\ Line \in {L_CONFIG, L_F, L_F_TRUE} )
           /\ ( /\ Consumes
                /\ state \in {STATE_COMMENT, STATE_UNCOMMENT}
                /\ Line \in {L_CONFIG, L_F, L_F_TRUE} )
                 => pc' = "error"
           /\ (Consumes /\ pc' = "running")
                 => ( /\ SubSeq(input', 1, Len(input)) = input
                      /\ Len(output') = Len(output) + 1
                      /\ SubSeq(output', 1, Len(output)) = output )
         ]_vars

C18_Witness ==
    /\ pc = "done"
    /\ input = <<L_CONFIG, L_F, L_END, L_F, L_X>>
    /\ output = <<L_CONFIG, L_F, L_END, L_F, <<";", " ", "x", "\n">>>>

----------------------------------------------------------------------------
\* C19: commentCode is idempotent. Every result of commentCode is a line whose
\* stripped form starts with one semicolon that is not followed by a second
\* one, and commentCode applied to such a result returns it unchanged.
C19_Idempotent ==
    \A i \in 1..Len(ops) :
        ops[i] = "commentCode" =>
            /\ SingleSemi(hist[i + 1])
            /\ (i < Len(ops) /\ ops[i + 1] = "commentCode")
                   => hist[i + 2] = hist[i + 1]

\* a `;;` comment line commented once, then handed to commentCode again
C19_Witness ==
    /\ ops = <<"commentCode", "commentCode">>
    /\ hist[1] = <<";", ";", "x", "\n">>
    /\ hist[2] = <<";", " ", ";", ";", "x", "\n">>
    /\ hist[3] = hist[2]

----------------------------------------------------------------------------
\* the states of a block
BlockStates == {STATE_CONFIG, STATE_COMMENT, STATE_UNCOMMENT}

\* l is a directive line: the marker is its first text
IsDirectiveLine(l) ==
    \E k \in 1..Len(l) :
        /\ \A j \in 1..(k - 1) : l[j] \in {" ", "\t", "\n"}
        /\ k + 4 <= Len(l)
        /\ SubSeq(l, k, k + 4) = <<";", ";", " ", "$", "@">>

\* C20: a step that changes the state to CONFIG, COMMENT or UNCOMMENT starts
\* in NORMAL and consumes a directive line, and for COMMENT and UNCOMMENT the
\* directive's name is a key of the config mapping at that moment; so there is
\* no transition among CONFIG, COMMENT and UNCOMMENT nor from END_OF_CODE into
\* them. A step that leaves CONFIG, COMMENT or UNCOMMENT consumes an END
\* directive (to NORMAL) or a sentinel line (to END_OF_CODE); the fatal error
\* stops the run in COMMENT or UNCOMMENT on a directive that is not END.
C20_Transitions ==
    [][ /\ state' # state => Consumes
        /\ (state' # state /\ state' \in BlockStates)
              => ( /\ state = STATE_NORMAL
                   /\ IsDirectiveLine(Line)
                   /\ state' \in {STATE_COMMENT, STATE_UNCOMMENT}
                         => DirectiveText(Line) \in DOMAIN config )
        /\ (state' # state /\ state \in BlockStates)
              => ( \/ Line = L_END /\ state' = STATE_NORMAL
                   \/ Line = L_SENT /\ state' = STATE_ENDOFCODE )
        /\ pc' = "error"
              => ( /\ state \in {STATE_COMMENT, STATE_UNCOMMENT}
                   /\ state' = state
                   /\ IsDirectiveLine(Line)
                   /\ Line # L_END )
      ]_vars

\* a flag stored in a CONFIG block, the block closed, and the flag's
\* directive opening a COMMENT block from NORMAL
C20_Witness ==
    /\ input = <<L_CONFIG, L_F, L_END, L_F>>
    /\ state = STATE_COMMENT
    /\ <<"F">> \in DOMAIN config
    /\ pc = "running"

====
